---- MODULE Spec2Model ----
(***************************************************************************)
(* Model of minesweeper.py: the Minesweeper board, the Sentence class and   *)
(* the MinesweeperAI knowledge engine (add_knowledge, saturation, subset    *)
(* resolution, move queries).                                               *)
(***************************************************************************)
EXTENDS Integers, Sequences, FiniteSets, TLC

\* Bounds of the model.
MaxObservations == 3   \* cells revealed in one game
MaxCalls == 2   \* state-changing calls an arbitrary caller makes
MaxCount == 2   \* largest count handed to add_knowledge by an arbitrary caller
MaxMines == 3   \* largest number of mines placed on a board

\* Board shapes <<height, width>> the engine and the board are built with.
Shapes == {<<1, 1>>, <<1, 2>>, <<2, 2>>, <<2, 3>>}

\* The absent result of a move query (Python None).
None == <<>>

VARIABLES
    height,      \* MinesweeperAI.height
    width,       \* MinesweeperAI.width
    board,       \* Minesweeper.mines: the true mine set of the board
    moves_made,  \* MinesweeperAI.moves_made
    mines,       \* MinesweeperAI.mines
    safes,       \* MinesweeperAI.safes
    knowledge,   \* MinesweeperAI.knowledge: list of sentences
    op,          \* the call that produced this state: [name, cell, count]
    ret,         \* value returned by the last move query
    before,      \* knowledge when the last state-changing call was made
    saturated,   \* engine at the end of step 4 of the last add_knowledge
    calls,       \* number of state-changing calls made so far
    marked,      \* TRUE once mark_safe/mark_mine was called from outside
    worlds       \* the mine sets every add_knowledge call so far is true of

vars == <<height, width, board, moves_made, mines, safes, knowledge,
          op, ret, before, saturated, calls, marked, worlds>>

----------------------------------------------------------------------------
\* Board geometry

Grid(h, w) == (0 .. h - 1) \X (0 .. w - 1)

\* Minesweeper.nearby_mines: mines within one row and column of cell,
\* in bounds, the cell itself excluded.
nearby_mines(h, w, M, cell) ==
    Cardinality({n \in ((cell[1] - 1) .. (cell[1] + 1)) \X ((cell[2] - 1) .. (cell[2] + 1)) :
                    /\ n # cell
                    /\ 0 <= n[1] /\ n[1] < h /\ 0 <= n[2] /\ n[2] < w
                    /\ n \in M})

\* Minesweeper.is_mine
is_mine(M, cell) == cell \in M

\* What the board answers when cell is revealed: the reveal is truthful of
\* mine set M when cell is no mine of M and count is M's nearby_mines.
Truthful(h, w, M, cell, count) ==
    /\ ~is_mine(M, cell)
    /\ nearby_mines(h, w, M, cell) = count

----------------------------------------------------------------------------
\* Sentence

Sentence(cells, count) == [cells |-> cells, count |-> count]

\* Sentence.__eq__
Sentence_eq(a, b) == a.cells = b.cells /\ a.count = b.count

\* known_mines with "some of the cells are mines" taken for "all are"
known_mines_some(s) == IF s.count > 0 THEN s.cells ELSE {}

known_mines(s) == IF s.count = Cardinality(s.cells) THEN s.cells ELSE {}

known_safes(s) == IF s.count = 0 THEN s.cells ELSE {}

\* Sentence.mark_mine without "self.count -= 1"
Sentence_mark_mine_keeps_count(s, cell) ==
    IF cell \in s.cells
    THEN [cells |-> s.cells \ {cell}, count |-> s.count]
    ELSE s

\* Sentence.mark_mine without the "if cell in self.cells" test
Sentence_mark_mine_unguarded(s, cell) ==
    [cells |-> s.cells \ {cell}, count |-> s.count - 1]

Sentence_mark_mine(s, cell) ==
    IF cell \in s.cells
    THEN [cells |-> s.cells \ {cell}, count |-> s.count - 1]
    ELSE s

\* Sentence.mark_safe that lowers the count as mark_mine does
Sentence_mark_safe_decrements(s, cell) ==
    IF cell \in s.cells
    THEN [cells |-> s.cells \ {cell}, count |-> s.count - 1]
    ELSE s

Sentence_mark_safe(s, cell) ==
    IF cell \in s.cells
    THEN [cells |-> s.cells \ {cell}, count |-> s.count]
    ELSE s

----------------------------------------------------------------------------
\* MinesweeperAI, as functions of the engine record self

\* MinesweeperAI.__init__
NewAI(h, w) ==
    [height |-> h, width |-> w, moves_made |-> {}, mines |-> {}, safes |-> {},
     knowledge |-> <<>>]

mark_mine(self, cell) ==
    [self EXCEPT !.mines = @ \cup {cell},
                 !.knowledge = [i \in DOMAIN @ |-> Sentence_mark_mine(@[i], cell)]]

\* mark_safe that also takes the cell back out of mines
mark_safe_unmarks_mine(self, cell) ==
    [self EXCEPT !.safes = @ \cup {cell},
                 !.mines = @ \ {cell},
                 !.knowledge = [i \in DOMAIN @ |-> Sentence_mark_safe(@[i], cell)]]

mark_safe(self, cell) ==
    [self EXCEPT !.safes = @ \cup {cell},
                 !.knowledge = [i \in DOMAIN @ |-> Sentence_mark_safe(@[i], cell)]]

\* find_cell_neighbors without the four diagonal candidates
find_cell_neighbors_orthogonal(self, cell) ==
    LET row == cell[1]
        col == cell[2]
        candidates == {<<row - 1, col>>, <<row + 1, col>>, <<row, col - 1>>,
                       <<row, col + 1>>}
    IN  {candidate \in candidates :
            /\ candidate \notin self.moves_made
            /\ 0 <= candidate[1] /\ candidate[1] < self.height
            /\ 0 <= candidate[2] /\ candidate[2] < self.width}

\* find_cell_neighbors: the eight candidates, kept when not in moves_made
\* and in bounds.
find_cell_neighbors(self, cell) ==
    LET row == cell[1]
        col == cell[2]
        candidates == {<<row - 1, col>>, <<row + 1, col>>, <<row, col - 1>>,
                       <<row, col + 1>>, <<row - 1, col - 1>>, <<row - 1, col + 1>>,
                       <<row + 1, col - 1>>, <<row + 1, col + 1>>}
    IN  {candidate \in candidates :
            /\ candidate \notin self.moves_made
            /\ 0 <= candidate[1] /\ candidate[1] < self.height
            /\ 0 <= candidate[2] /\ candidate[2] < self.width}

\* "for safe in safes: self.mark_safe(safe)"
RECURSIVE mark_safe_each(_, _)
mark_safe_each(self, cellset) ==
    IF cellset = {} THEN self
    ELSE LET safe == CHOOSE x \in cellset : TRUE
         IN  mark_safe_each(mark_safe(self, safe), cellset \ {safe})

\* "for mine in mines: self.mark_mine(mine)"
RECURSIVE mark_mine_each(_, _)
mark_mine_each(self, cellset) ==
    IF cellset = {} THEN self
    ELSE LET mine == CHOOSE x \in cellset : TRUE
         IN  mark_mine_each(mark_mine(self, mine), cellset \ {mine})

\* A pass that sets changes on the sentence's count alone ("if count == 0"
\* for "if safes"), also when the sentence has no cell left
RECURSIVE saturate_pass_flags_count(_, _, _)
saturate_pass_flags_count(self, i, changes) ==
    IF i > Len(self.knowledge) THEN [ai |-> self, changes |-> changes]
    ELSE LET sentence == self.knowledge[i]
             safes_ == known_safes(sentence)
             mines_ == known_mines(sentence)
             a1 == IF safes_ # {} THEN mark_safe_each(self, safes_) ELSE self
             a2 == IF mines_ # {} THEN mark_mine_each(a1, mines_) ELSE a1
         IN  saturate_pass_flags_count(a2, i + 1,
                 changes \/ sentence.count = 0
                         \/ sentence.count = Cardinality(sentence.cells))

\* One "for sentence in self.knowledge" pass of update_knowledge_base, from
\* sentence i on; both fact sets are copied before either is applied.
RECURSIVE saturate_pass(_, _, _)
saturate_pass(self, i, changes) ==
    IF i > Len(self.knowledge) THEN [ai |-> self, changes |-> changes]
    ELSE LET sentence == self.knowledge[i]
             safes_ == known_safes(sentence)
             mines_ == known_mines(sentence)
             a1 == IF safes_ # {} THEN mark_safe_each(self, safes_) ELSE self
             a2 == IF mines_ # {} THEN mark_mine_each(a1, mines_) ELSE a1
         IN  saturate_pass(a2, i + 1, changes \/ safes_ # {} \/ mines_ # {})

\* One pass only: "if changes" for "while changes"
saturate_loop_single_pass(self) == saturate_pass(self, 1, FALSE).ai

\* "while changes": passes repeat until one makes no change.
RECURSIVE saturate_loop(_)
saturate_loop(self) ==
    LET r == saturate_pass(self, 1, FALSE)
    IN  IF r.changes THEN saturate_loop(r.ai) ELSE r.ai

NonEmpty(s) == s.cells # {}

\* Saturation that looks at the newly appended sentence only, once
update_knowledge_base_newest_only(self) ==
    LET r == saturate_pass(self, Len(self.knowledge), FALSE)
    IN  [r.ai EXCEPT !.knowledge = SelectSeq(@, NonEmpty)]

\* "self.knowledge = [s for s in self.knowledge if s.cells]"
remove_empty(self) == [self EXCEPT !.knowledge = SelectSeq(@, NonEmpty)]

update_knowledge_base(self) == remove_empty(saturate_loop(self))

\* "sentence in list" by object identity, as without Sentence.__eq__: a
\* newly built sentence is in no list
InList_identity(s, list) == FALSE

\* "sentence in list": membership by Sentence.__eq__
InList(s, list) == \E k \in DOMAIN list : Sentence_eq(s, list[k])

\* The candidate with the counts subtracted the wrong way round
resolve_swapped(s1, s2) == Sentence(s2.cells \ s1.cells, s1.count - s2.count)

\* The candidate infer_new_sentences derives from s1.cells <= s2.cells
resolve(s1, s2) == Sentence(s2.cells \ s1.cells, s2.count - s1.count)

\* The nested loops of infer_new_sentences over (s1, s2) = (kb[i], kb[j]).
RECURSIVE infer_pairs(_, _, _, _)
infer_pairs(kb, i, j, inferred) ==
    IF i > Len(kb) THEN inferred
    ELSE IF j > Len(kb) THEN infer_pairs(kb, i + 1, 1, inferred)
    ELSE LET s1 == kb[i]
             s2 == kb[j]
             new_sentence == resolve(s1, s2)
         IN  IF /\ ~Sentence_eq(s1, s2)
                /\ s1.cells \subseteq s2.cells
                /\ ~InList(new_sentence, kb)
                /\ ~InList(new_sentence, inferred)
             THEN infer_pairs(kb, i, j + 1, Append(inferred, new_sentence))
             ELSE infer_pairs(kb, i, j + 1, inferred)

infer_new_sentences(self) ==
    [self EXCEPT !.knowledge = @ \o infer_pairs(@, 1, 1, <<>>)]

\* Steps 1 and 2 without the mark_safe call
mark_move_only_records(self, cell) ==
    [self EXCEPT !.moves_made = @ \cup {cell}]

\* add_knowledge, steps 1 and 2
mark_move(self, cell) ==
    mark_safe([self EXCEPT !.moves_made = @ \cup {cell}], cell)

\* add_knowledge, steps 1 to 3
add_sentence(self, cell, count) ==
    LET a2 == mark_move(self, cell)
        neighbors == find_cell_neighbors(a2, cell)
    IN  [a2 EXCEPT !.knowledge = Append(@, Sentence(neighbors, count))]

\* add_knowledge, steps 1 to 4
add_and_saturate(self, cell, count) ==
    update_knowledge_base(add_sentence(self, cell, count))

\* add_knowledge that saturates once more after the resolution pass
add_knowledge_resaturates(self, cell, count) ==
    update_knowledge_base(infer_new_sentences(add_and_saturate(self, cell, count)))

add_knowledge(self, cell, count) ==
    infer_new_sentences(add_and_saturate(self, cell, count))

\* make_safe_move without the "not in self.moves_made" filter
make_safe_move_any_safe(self) ==
    IF self.safes # {} THEN self.safes ELSE {None}

\* make_safe_move: the values the call can return
make_safe_move(self) ==
    LET possible_moves == {c \in self.safes : c \notin self.moves_made}
    IN  IF possible_moves # {} THEN possible_moves ELSE {None}

\* make_random_move without the "not in self.mines" filter
make_random_move_ignores_mines(self) ==
    LET possible_moves == {c \in Grid(self.height, self.width) :
                              c \notin self.moves_made}
    IN  IF possible_moves = {} THEN {None} ELSE possible_moves

\* make_random_move: the values the call can return
make_random_move(self) ==
    LET possible_moves == {c \in Grid(self.height, self.width) :
                              c \notin self.moves_made /\ c \notin self.mines}
    IN  IF possible_moves = {} THEN {None} ELSE possible_moves

----------------------------------------------------------------------------
\* The state machine

Self ==
    [height |-> height, width |-> width, moves_made |-> moves_made,
     mines |-> mines, safes |-> safes, knowledge |-> knowledge]

Store(a) ==
    /\ moves_made' = a.moves_made
    /\ mines' = a.mines
    /\ safes' = a.safes
    /\ knowledge' = a.knowledge

Boards(h, w) == {M \in SUBSET Grid(h, w) : Cardinality(M) <= MaxMines}

InitEngine ==
    /\ \E shape \in Shapes : height = shape[1] /\ width = shape[2]
    /\ moves_made = {} /\ mines = {} /\ safes = {} /\ knowledge = <<>>
    /\ op = [name |-> "init", cell |-> None, count |-> 0]
    /\ ret = None
    /\ before = <<>>
    /\ saturated = NewAI(height, width)
    /\ calls = 0
    /\ marked = FALSE
    /\ worlds = SUBSET Grid(height, width)

\* A game: a board with its mines placed, and a fresh engine of its size.
Init ==
    /\ InitEngine
    /\ board \in Boards(height, width)

\* A fresh engine of any shape up to 3 x 3.
InitFirst ==
    /\ \E shape \in Shapes \cup {<<3, 3>>} : height = shape[1] /\ width = shape[2]
    /\ moves_made = {} /\ mines = {} /\ safes = {} /\ knowledge = <<>>
    /\ op = [name |-> "init", cell |-> None, count |-> 0]
    /\ ret = None
    /\ before = <<>>
    /\ saturated = NewAI(height, width)
    /\ calls = 0
    /\ marked = FALSE
    /\ worlds = SUBSET Grid(height, width)
    /\ board = {}

\* An engine driven by an arbitrary caller; no board is consulted.
InitAny ==
    /\ InitEngine
    /\ board = {}

\* The boards of the step-by-step specification: a neighbourhood of up to
\* three cells, enough for a pass to resolve cells that a later pass uses.
LoopShapes == {<<1, 1>>, <<1, 2>>, <<2, 2>>}

\* A fresh engine on one of those boards, driven by an arbitrary caller.
InitLoop ==
    /\ InitAny
    /\ <<height, width>> \in LoopShapes

\* add_knowledge(cell, count)
AddKnowledge(cell, count) ==
    /\ Store(add_knowledge(Self, cell, count))
    /\ before' = knowledge
    /\ saturated' = add_and_saturate(Self, cell, count)
    /\ op' = [name |-> "add_knowledge", cell |-> cell, count |-> count]
    /\ calls' = calls + 1
    /\ worlds' = {M \in worlds : Truthful(height, width, M, cell, count)}
    /\ UNCHANGED <<height, width, board, ret, marked>>

\* The game reveals a cell that is not a mine and reports its true count.
Observe ==
    \E cell \in Grid(height, width) :
        /\ calls < MaxObservations
        /\ ~is_mine(board, cell)
        /\ AddKnowledge(cell, nearby_mines(height, width, board, cell))

\* Any caller: any in-bounds cell with any count.
ObserveAny ==
    \E cell \in Grid(height, width) : \E count \in 0 .. MaxCount :
        /\ calls < MaxCalls
        /\ AddKnowledge(cell, count)

\* The first call on a fresh engine of any shape up to 3 x 3, with any
\* count a board of that shape could report.
ObserveFirst ==
    \E cell \in Grid(height, width) :
        \E count \in 0 .. Cardinality(find_cell_neighbors(Self, cell)) :
            /\ calls = 0
            /\ AddKnowledge(cell, count)

\* add_knowledge taken step by step: steps 1 to 3 of a call by any caller.
StartCall ==
    \E cell \in Grid(height, width) : \E count \in 0 .. MaxCount :
        /\ calls < MaxCalls
        /\ op.name \notin {"step3", "pass"}
        /\ \E a \in {add_sentence(Self, cell, count)} : Store(a)
        /\ before' = knowledge
        /\ op' = [name |-> "step3", cell |-> cell, count |-> count]
        /\ calls' = calls + 1
        /\ worlds' = {M \in worlds : Truthful(height, width, M, cell, count)}
        /\ UNCHANGED <<height, width, board, ret, saturated, marked>>

\* One pass of the "while changes" loop that sets changes: the loop goes on.
Pass ==
    /\ op.name \in {"step3", "pass"}
    /\ \E r \in {saturate_pass(Self, 1, FALSE)} :
          /\ r.changes
          /\ Store(r.ai)
    /\ op' = [op EXCEPT !.name = "pass"]
    /\ UNCHANGED <<height, width, board, ret, before, saturated, calls,
                   marked, worlds>>

\* The pass that sets no changes: the loop ends, empty sentences are
\* removed, the resolution pass runs and add_knowledge returns.
Finish ==
    /\ op.name \in {"step3", "pass"}
    /\ \E r \in {saturate_pass(Self, 1, FALSE)} :
          /\ ~r.changes
          /\ \E a \in {remove_empty(r.ai)} :
                /\ saturated' = a
                /\ \E b \in {infer_new_sentences(a)} : Store(b)
    /\ op' = [op EXCEPT !.name = "add_knowledge"]
    /\ UNCHANGED <<height, width, board, ret, before, calls, marked, worlds>>

\* mark_safe(cell) called directly
MarkSafe ==
    \E cell \in Grid(height, width) :
        /\ calls < MaxCalls
        /\ Store(mark_safe(Self, cell))
        /\ op' = [name |-> "mark_safe", cell |-> cell, count |-> 0]
        /\ calls' = calls + 1
        /\ marked' = TRUE
        /\ before' = knowledge
        /\ UNCHANGED <<height, width, board, ret, saturated, worlds>>

\* mark_mine(cell) called directly
MarkMine ==
    \E cell \in Grid(height, width) :
        /\ calls < MaxCalls
        /\ Store(mark_mine(Self, cell))
        /\ op' = [name |-> "mark_mine", cell |-> cell, count |-> 0]
        /\ calls' = calls + 1
        /\ marked' = TRUE
        /\ before' = knowledge
        /\ UNCHANGED <<height, width, board, ret, saturated, worlds>>

\* make_safe_move that also records the move it hands out
MakeSafeMove_records_move ==
    /\ \E r \in make_safe_move(Self) :
          /\ ret' = r
          /\ moves_made' = IF r = None THEN moves_made ELSE moves_made \cup {r}
    /\ op' = [name |-> "make_safe_move", cell |-> None, count |-> 0]
    /\ UNCHANGED <<height, width, board, mines, safes, knowledge,
                   before, saturated, calls, marked, worlds>>

\* make_safe_move()
MakeSafeMove ==
    /\ \E r \in make_safe_move(Self) : ret' = r
    /\ op' = [name |-> "make_safe_move", cell |-> None, count |-> 0]
    /\ UNCHANGED <<height, width, board, moves_made, mines, safes, knowledge,
                   before, saturated, calls, marked, worlds>>

\* make_random_move()
MakeRandomMove ==
    /\ \E r \in make_random_move(Self) : ret' = r
    /\ op' = [name |-> "make_random_move", cell |-> None, count |-> 0]
    /\ UNCHANGED <<height, width, board, moves_made, mines, safes, knowledge,
                   before, saturated, calls, marked, worlds>>

Next == Observe \/ MakeSafeMove \/ MakeRandomMove

NextAny == ObserveAny \/ MarkSafe \/ MarkMine \/ MakeSafeMove \/ MakeRandomMove

NextFirst == ObserveFirst \/ MakeSafeMove \/ MakeRandomMove

NextLoop == StartCall \/ Pass \/ Finish

\* Play against a board: every observation is truthful.
Spec == Init /\ [][Next]_vars

\* The engine under any sequence of calls.
SpecAny == InitAny /\ [][NextAny]_vars

\* One add_knowledge call on a fresh engine, then move queries.
SpecFirst == InitFirst /\ [][NextFirst]_vars

\* add_knowledge step by step under any calls. The code is single-threaded
\* and synchronous: a call that has started keeps running its loop.
SpecLoop ==
    InitLoop /\ [][NextLoop]_vars /\ WF_vars(Pass) /\ WF_vars(Finish)

\* The steps of SpecLoop compose to the add_knowledge of the other
\* specifications.
LoopAgreesWithCall ==
    [][/\ op'.name = "step3" =>
             Self' = add_sentence(Self, op'.cell, op'.count)
       /\ op'.name = "pass" =>
             update_knowledge_base(Self') = update_knowledge_base(Self)
       /\ op'.name = "add_knowledge" =>
             /\ saturated' = update_knowledge_base(Self)
             /\ Self' = infer_new_sentences(update_knowledge_base(Self))]_vars

----------------------------------------------------------------------------
\* Claims

\* C1 (soundness): when every observed cell is in bounds, is not a mine and
\* comes with its true neighbouring-mine count, after every add_knowledge
\* call every cell of the engine's mines is a mine of the board and no cell
\* of the engine's safes is.
C1_Soundness ==
    /\ mines \subseteq board
    /\ safes \cap board = {}

\* An observation after which the engine has proven a mine and a safe cell
\* that was never revealed.
C1_Witness ==
    /\ op.name = "add_knowledge"
    /\ mines # {}
    /\ safes \ moves_made # {}

\* C2 as stated: after any sequence of add_knowledge calls, safes and mines
\* are disjoint.
C2_DisjointAfterAnyCalls ==
    ~marked => safes \cap mines = {}

\* C2, amended: after any sequence of add_knowledge calls that is truthful
\* of some board (each observed cell is in bounds and no mine of it, each
\* count its number of neighbouring mines), safes and mines are disjoint.
C2_DisjointAfterTruthfulCalls ==
    (~marked /\ worlds # {}) => safes \cap mines = {}

\* Truthful observations after which both sets are non-empty.
C2_Witness ==
    /\ op.name = "add_knowledge"
    /\ ~marked /\ worlds # {}
    /\ calls = 2
    /\ safes # {} /\ mines # {}

\* C3 (monotonicity): no engine operation removes a cell from safes or
\* from mines.
C3_Monotone ==
    [][safes \subseteq safes' /\ mines \subseteq mines']_vars

\* Both sets hold cells and a further call has been made on them.
C3_Witness ==
    /\ calls = 2
    /\ op.name \in {"add_knowledge", "mark_safe", "mark_mine"}
    /\ safes # {} /\ mines # {}

\* C4 (subset resolution): for every ordered pair of unequal sentences A, B
\* in knowledge when the resolution pass starts with A.cells a subset of
\* B.cells, knowledge holds after the pass a sentence with cells
\* B.cells - A.cells and count B.count - A.count.
C4_SubsetResolution ==
    op.name = "add_knowledge" =>
        \A i, j \in DOMAIN saturated.knowledge :
            LET A == saturated.knowledge[i]
                B == saturated.knowledge[j]
            IN  (A # B /\ A.cells \subseteq B.cells) =>
                    \E k \in DOMAIN knowledge :
                        /\ knowledge[k].cells = B.cells \ A.cells
                        /\ knowledge[k].count = B.count - A.count

\* A pass that started with a proper subset pair of different counts and
\* appended what it derived.
C4_Witness ==
    /\ op.name = "add_knowledge"
    /\ Len(knowledge) > Len(saturated.knowledge)
    /\ \E i, j \in DOMAIN saturated.knowledge :
          /\ saturated.knowledge[i].cells \subseteq saturated.knowledge[j].cells
          /\ saturated.knowledge[i].cells # saturated.knowledge[j].cells
          /\ saturated.knowledge[i].count # 0
          /\ saturated.knowledge[i].count # saturated.knowledge[j].count

\* C5 (facts left by resolution are picked up by the next observation):
\* under truthful observations, every cell of a sentence with count 0 that
\* knowledge held when one add_knowledge call returned is in safes after
\* the next call, and every cell of a sentence with count = |cells| is in
\* mines.
C5_PickedUpByNextCall ==
    op.name = "add_knowledge" =>
        \A k \in DOMAIN before :
            /\ before[k].count = 0 => before[k].cells \subseteq safes
            /\ before[k].count = Cardinality(before[k].cells) =>
                   before[k].cells \subseteq mines

\* The previous call left a sentence with count 0 over cells that were
\* never revealed, and the call after it has returned.
C5_Witness ==
    /\ op.name = "add_knowledge"
    /\ \E k \in DOMAIN before :
          /\ before[k].count = 0
          /\ before[k].cells # {}
          /\ before[k].cells \cap moves_made = {}

\* The same for a sentence whose cells were all mines.
C5_WitnessMines ==
    /\ op.name = "add_knowledge"
    /\ \E k \in DOMAIN before :
          /\ before[k].count = Cardinality(before[k].cells)
          /\ before[k].cells # {}

\* C6: make_safe_move returns a cell of safes that is not in moves_made
\* whenever there is one, and None exactly when there is none.
C6_SafeMove ==
    op.name = "make_safe_move" =>
        /\ safes \ moves_made # {} => ret \in safes \ moves_made
        /\ ret = None <=> safes \ moves_made = {}

\* A safe move was handed out while other safes had already been played.
C6_Witness ==
    /\ op.name = "make_safe_move"
    /\ ret \in safes \ moves_made
    /\ moves_made # {}

\* The 1 x 1 board after its single cell was observed: no safe move.
C6_WitnessNone ==
    /\ op.name = "make_safe_move"
    /\ height = 1 /\ width = 1
    /\ moves_made = {<<0, 0>>}
    /\ ret = None

\* C7: make_random_move returns an in-bounds cell that is neither in
\* moves_made nor in mines whenever there is one, and None exactly when
\* every board cell is in moves_made or mines.
C7_RandomMove ==
    op.name = "make_random_move" =>
        LET free == {c \in (0 .. height - 1) \X (0 .. width - 1) :
                        c \notin moves_made \cup mines}
        IN  /\ free # {} =>
                  /\ ret \in free
                  /\ 0 <= ret[1] /\ ret[1] < height
                  /\ 0 <= ret[2] /\ ret[2] < width
            /\ ret = None <=> free = {}

\* A random move was handed out on a board with a known mine and a move made.
C7_Witness ==
    /\ op.name = "make_random_move"
    /\ ret # None
    /\ mines # {} /\ moves_made # {}

\* Every cell is played or a known mine: no random move.
C7_WitnessNone ==
    /\ op.name = "make_random_move"
    /\ ret = None
    /\ mines # {}

\* C8: the move queries change none of moves_made, safes, mines and
\* knowledge, whatever they return.
C8_QueriesReadOnly ==
    [][op'.name \in {"make_safe_move", "make_random_move"} =>
          UNCHANGED <<moves_made, safes, mines, knowledge>>]_vars

\* A query answered with a cell on an engine that holds sentences.
C8_Witness ==
    /\ op.name \in {"make_safe_move", "make_random_move"}
    /\ ret # None
    /\ knowledge # <<>>

\* The cells of the board within one row and column of cell.
Around(cell) ==
    {n \in (0 .. height - 1) \X (0 .. width - 1) :
        /\ n # cell
        /\ n[1] - cell[1] \in {-1, 0, 1}
        /\ n[2] - cell[2] \in {-1, 0, 1}}

\* C9 (no over-claiming): on a fresh engine one add_knowledge(cell, count)
\* with 0 < count < number of in-bounds neighbours leaves mines empty,
\* safes = {cell} and knowledge = one sentence over all in-bounds
\* neighbours with the given count.
C9_NoOverClaiming ==
    (/\ calls = 1
     /\ op.name = "add_knowledge"
     /\ 0 < op.count
     /\ op.count < Cardinality(Around(op.cell))) =>
        /\ mines = {}
        /\ safes = {op.cell}
        /\ Len(knowledge) = 1
        /\ knowledge[1].cells = Around(op.cell)
        /\ knowledge[1].count = op.count

\* 3 x 3 board, observe((1,1), 1).
C9_Witness ==
    /\ height = 3 /\ width = 3
    /\ calls = 1
    /\ op = [name |-> "add_knowledge", cell |-> <<1, 1>>, count |-> 1]
    /\ <<0, 0>> \notin safes \cup mines

\* C10 (idempotence): in every reachable state and for every cell c, the
\* engine's mark_mine(c) applied twice gives the state mark_mine(c) gives
\* applied once, and so does mark_safe(c).
C10_MarkIdempotent ==
    \A c \in Grid(height, width) :
        /\ mark_mine(mark_mine(Self, c), c) = mark_mine(Self, c)
        /\ mark_safe(mark_safe(Self, c), c) = mark_safe(Self, c)

\* mark_mine(c) was called on an engine with a sentence about c, and left
\* sentences to be marked again.
C10_Witness ==
    /\ op.name = "mark_mine"
    /\ \E k \in DOMAIN before : op.cell \in before[k].cells
    /\ \E k \in DOMAIN knowledge : knowledge[k].cells # {}

\* C11 (marking an already-known cell is a no-op): in every state reached
\* through add_knowledge calls, mark_mine(c) for c in mines and mark_safe(c)
\* for c in safes leave safes, mines and every sentence unchanged.
C11_KnownCellNoOp ==
    ~marked =>
        /\ \A c \in mines : mark_mine(Self, c) = Self
        /\ \A c \in safes : mark_safe(Self, c) = Self

\* C14 (resolved cells are removed from sentences): after every
\* add_knowledge call no sentence of knowledge contains a cell that is in
\* safes or in mines.
C14_NoResolvedCellInSentence ==
    op.name = "add_knowledge" =>
        \A k \in DOMAIN knowledge :
            knowledge[k].cells \cap (safes \cup mines) = {}

\* Number of sentences of list equal to s.
Occurrences(s, list) == Cardinality({k \in DOMAIN list : list[k] = s})

\* C12, amended: a resolution candidate equal to a sentence already in
\* knowledge is not stored again: for every unequal subset pair the pass
\* starts with whose difference sentence is already in knowledge, knowledge
\* holds after the pass as many sentences equal to it as before.
C12_EqualCandidateNotStoredAgain ==
    op.name = "add_knowledge" =>
        \A i, j \in DOMAIN saturated.knowledge :
            LET A == saturated.knowledge[i]
                B == saturated.knowledge[j]
                candidate == [cells |-> B.cells \ A.cells, count |-> B.count - A.count]
            IN  (/\ A # B
                 /\ A.cells \subseteq B.cells
                 /\ Occurrences(candidate, saturated.knowledge) > 0) =>
                    Occurrences(candidate, knowledge) =
                        Occurrences(candidate, saturated.knowledge)

\* C12 as stated: neither the sentence add_knowledge builds in step 3 nor a
\* resolution candidate is stored when an equal sentence is already in
\* knowledge; knowledge is then left unchanged.
C12_EqualSentenceNotStoredAgain ==
    /\ C12_EqualCandidateNotStoredAgain
    /\ \A cell \in Grid(height, width) :
          LET count == nearby_mines(height, width, board, cell)
              a2 == mark_move(Self, cell)
              new_sentence == Sentence(find_cell_neighbors(a2, cell), count)
          IN  (~is_mine(board, cell) /\ InList(new_sentence, a2.knowledge)) =>
                  add_sentence(Self, cell, count).knowledge = a2.knowledge

\* A pass derived a non-empty candidate that was already in knowledge.
C12_Witness ==
    /\ op.name = "add_knowledge"
    /\ \E i, j \in DOMAIN saturated.knowledge :
          LET A == saturated.knowledge[i]
              B == saturated.knowledge[j]
              candidate == [cells |-> B.cells \ A.cells, count |-> B.count - A.count]
          IN  /\ A # B
              /\ A.cells \subseteq B.cells
              /\ candidate.cells # {}
              /\ Occurrences(candidate, saturated.knowledge) > 0

\* C13 (sentence simplification): Sentence.mark_mine(c) removes c and lowers
\* count by exactly 1 when c is in cells, Sentence.mark_safe(c) removes c
\* and keeps count when c is in cells, each changes nothing when c is not
\* in cells, and no other cell is removed; so it is for every sentence of
\* every reachable knowledge base and every cell, and so did the last
\* direct mark_mine / mark_safe call change each sentence.
C13_SentenceSimplification ==
    /\ \A k \in DOMAIN knowledge : \A c \in Grid(height, width) :
          LET s == knowledge[k]
              m == Sentence_mark_mine(s, c)
              f == Sentence_mark_safe(s, c)
          IN  /\ m.cells = s.cells \ {c}
              /\ f.cells = s.cells \ {c}
              /\ m.count = IF c \in s.cells THEN s.count - 1 ELSE s.count
              /\ f.count = s.count
    /\ op.name \in {"mark_mine", "mark_safe"} =>
          /\ Len(knowledge) = Len(before)
          /\ \A k \in DOMAIN before :
                /\ knowledge[k].cells = before[k].cells \ {op.cell}
                /\ knowledge[k].count =
                      IF op.name = "mark_mine" /\ op.cell \in before[k].cells
                      THEN before[k].count - 1
                      ELSE before[k].count

\* mark_safe(c) was called on an engine holding a sentence about c and
\* other cells.
C13_Witness ==
    /\ op.name = "mark_safe"
    /\ \E k \in DOMAIN before :
          /\ op.cell \in before[k].cells
          /\ knowledge[k].cells # {}
          /\ knowledge[k].count = before[k].count

\* C15 (saturation reaches a fixed point): when update_knowledge_base
\* finishes, every sentence of knowledge has a non-empty cell set and a
\* count that is neither 0 nor the number of its cells.
C15_SaturationFixedPoint ==
    op.name = "add_knowledge" =>
        \A k \in DOMAIN saturated.knowledge :
            LET s == saturated.knowledge[k]
            IN  /\ s.cells # {}
                /\ s.count # 0
                /\ s.count # Cardinality(s.cells)

\* A saturation that marked cells, dropped the sentence it emptied and
\* kept another.
C15_Witness ==
    /\ op.name = "add_knowledge"
    /\ Len(saturated.knowledge) > 0
    /\ Len(saturated.knowledge) <= Len(before)
    /\ saturated.safes \ moves_made # {}

\* C17: every cell of moves_made is in safes, after any sequence of
\* add_knowledge, mark_safe and mark_mine calls.
C17_MovesAreSafes ==
    moves_made \subseteq safes

\* Moves were made and cells were marked directly as well.
C17_Witness ==
    /\ marked
    /\ moves_made # {}
    /\ mines # {}
    /\ calls = 2

\* C18 (sentence count bounds): under truthful observations every sentence
\* of knowledge, those derived by the resolution pass included, has
\* 0 <= count <= |cells| after every add_knowledge call.
C18_CountBounds ==
    \A k \in DOMAIN knowledge :
        /\ 0 <= knowledge[k].count
        /\ knowledge[k].count <= Cardinality(knowledge[k].cells)

\* A call returned with sentences the resolution pass derived.
C18_Witness ==
    /\ op.name = "add_knowledge"
    /\ Len(knowledge) > Len(saturated.knowledge)
    /\ \E k \in DOMAIN knowledge :
          k > Len(saturated.knowledge) /\ knowledge[k].count > 0

\* The sentences the last resolution pass appended.
Appended == SubSeq(knowledge, Len(saturated.knowledge) + 1, Len(knowledge))

\* C19 (deduplication in the resolution pass): no sentence a resolution pass
\* appends equals a sentence that was in knowledge when the pass started,
\* nor another sentence appended by the same pass.
C19_NoDuplicateAppended ==
    op.name = "add_knowledge" =>
        /\ \A a \in DOMAIN Appended : \A k \in DOMAIN saturated.knowledge :
              ~(/\ Appended[a].cells = saturated.knowledge[k].cells
                /\ Appended[a].count = saturated.knowledge[k].count)
        /\ \A a, b \in DOMAIN Appended :
              a # b => ~(/\ Appended[a].cells = Appended[b].cells
                         /\ Appended[a].count = Appended[b].count)

\* A pass that started with two equal sentences inside a larger one: both
\* pairs give the same candidate and it was appended once.
C19_Witness ==
    /\ op.name = "add_knowledge"
    /\ Len(Appended) > 0
    /\ \E i, j, k \in DOMAIN saturated.knowledge :
          /\ i # j
          /\ saturated.knowledge[i] = saturated.knowledge[j]
          /\ saturated.knowledge[i].cells \subseteq saturated.knowledge[k].cells
          /\ saturated.knowledge[i].cells # saturated.knowledge[k].cells

\* C20 (the resolution pass only appends): infer_new_sentences leaves
\* moves_made, safes, mines and the sentences already in knowledge as they
\* were at the end of the saturation step, in place; add_knowledge returns
\* with the safes and mines saturation reached.
C20_ResolutionOnlyAppends ==
    op.name = "add_knowledge" =>
        /\ moves_made = saturated.moves_made
        /\ safes = saturated.safes
        /\ mines = saturated.mines
        /\ Len(knowledge) >= Len(saturated.knowledge)
        /\ SubSeq(knowledge, 1, Len(saturated.knowledge)) = saturated.knowledge

\* The pass appended a sentence with count 0 whose cells add_knowledge
\* returned without marking safe.
C20_Witness ==
    /\ op.name = "add_knowledge"
    /\ \E a \in DOMAIN Appended :
          /\ Appended[a].count = 0
          /\ Appended[a].cells # {}
          /\ Appended[a].cells \cap safes = {}

\* C16 (every add_knowledge call terminates): from any knowledge base, one
\* built from inconsistent counts included (a count above the number of
\* cells, or below 0 once a pass has marked mines), a call that has appended
\* its sentence reaches a pass that makes no change after finitely many
\* passes, runs the resolution pass and returns.
C16_CallTerminates ==
    (op.name \in {"step3", "pass"}) ~> (op.name = "add_knowledge")

\* A call has returned that started from a knowledge base holding a
\* sentence with more mines than cells, and whose passes marked mines.
C16_Witness ==
    /\ op.name = "add_knowledge"
    /\ mines # {}
    /\ \E k \in DOMAIN before : before[k].count > Cardinality(before[k].cells)

====
